---- MODULE Spec2Model ----
(***************************************************************************)
(* A model of clients/requests.py of go-hmacauth: the HMACAuth request     *)
(* signer.  HMACAuth.__init__ stores the credentials and the sorted list   *)
(* of required header names; HMACAuth.__call__ reads the clock, builds the *)
(* string-to-sign, computes HMAC-SHA256 over it, base64-encodes the digest *)
(* and writes the Authorization header of the request.                     *)
(*                                                                         *)
(* A Python 2 str is a sequence of one-character strings; a byte string    *)
(* handed to hmac is a sequence of integers 0..255.  None is the empty     *)
(* option << >> and a present value v is << v >>.                          *)
(***************************************************************************)
EXTENDS Integers, Sequences, FiniteSets, TLC

VARIABLES
  auth,      \* the HMACAuth instance: api_key, secret_key, required_headers
  clock,     \* what datetime.utcnow() returns when it is read
  requests,  \* the request objects, by identity: method, url, headers
  frames     \* per thread, the activation of __call__: its position and locals

vars == << auth, clock, requests, frames >>

(***************************************************************************)
(* Characters and strings.                                                 *)
(***************************************************************************)
\* The characters of codes 32..126 (code 96, which a TLA+ string cannot hold,
\* is written <96>) and the newline.
Ascii ==
  <<
     " ", "!", "\"", "#", "$", "%", "&", "'", "(", ")", "*", "+", ",", "-", ".", "/",
     "0", "1", "2", "3", "4", "5", "6", "7", "8", "9", ":", ";", "<", "=", ">", "?",
     "@", "A", "B", "C", "D", "E", "F", "G", "H", "I", "J", "K", "L", "M", "N", "O",
     "P", "Q", "R", "S", "T", "U", "V", "W", "X", "Y", "Z", "[", "\\", "]", "^", "_",
     "<96>", "a", "b", "c", "d", "e", "f", "g", "h", "i", "j", "k", "l", "m", "n", "o",
     "p", "q", "r", "s", "t", "u", "v", "w", "x", "y", "z", "{", "|", "}", "~" >>

NL == "\n"

CharSet == {Ascii[i] : i \in 1..Len(Ascii)} \cup {NL}

OrdTab ==
  [c \in CharSet |->
     IF c = NL THEN 10 ELSE 31 + (CHOOSE i \in 1..Len(Ascii) : Ascii[i] = c)]

Ord(c) == OrdTab[c]

Chr(n) == IF n = 10 THEN NL ELSE Ascii[n - 31]

Bytes(s) == [i \in 1..Len(s) |-> Ord(s[i])]

Range(s) == {s[i] : i \in 1..Len(s)}

\* str.lower() on one character and on a string.
LowerChar(c) == IF Ord(c) >= 65 /\ Ord(c) <= 90 THEN Chr(Ord(c) + 32) ELSE c

Lower(s) == [i \in 1..Len(s) |-> LowerChar(s[i])]

\* a < b for two str values: code point by code point, a proper prefix first.
RECURSIVE StrLess(_, _)
StrLess(a, b) ==
  IF b = << >> THEN FALSE
  ELSE IF a = << >> THEN TRUE
  ELSE IF a[1] = b[1] THEN StrLess(Tail(a), Tail(b))
  ELSE Ord(a[1]) < Ord(b[1])

\* First index of character c in s at or after position from; 0 when absent
\* (str.find, 1-based).
RECURSIVE Find(_, _, _)
Find(s, c, from) ==
  IF from > Len(s) THEN 0
  ELSE IF s[from] = c THEN from
  ELSE Find(s, c, from + 1)

\* sep.join(parts)
RECURSIVE Join(_, _)
Join(sep, parts) ==
  IF parts = << >> THEN << >>
  ELSE IF Len(parts) = 1 THEN parts[1]
  ELSE parts[1] \o sep \o Join(sep, Tail(parts))

\* sorted(list of str): insertion after the equal elements, so it is stable.
RECURSIVE Insert(_, _)
Insert(x, s) ==
  IF s = << >> THEN << x >>
  ELSE IF StrLess(x, s[1]) THEN << x >> \o s
  ELSE << s[1] >> \o Insert(x, Tail(s))

\* The list in the order it was given.
Unsorted(s) == s

RECURSIVE Sorted(_)
Sorted(s) ==
  IF s = << >> THEN << >>
  ELSE Insert(s[Len(s)], Sorted(SubSeq(s, 1, Len(s) - 1)))

None == << >>
Some(v) == << v >>

(***************************************************************************)
(* hashlib.sha256, hmac.new(...).digest() and base64.b64encode, computed   *)
(* as the library computes them (FIPS 180-4, RFC 2104, RFC 4648).  A       *)
(* 32-bit word is a pair << hi, lo >> of 16-bit halves: the arithmetic is  *)
(* modulo 2^32 and every intermediate value stays a small integer.         *)
(***************************************************************************)
Pow2Tab ==
  << 1, 2, 4, 8, 16, 32, 64, 128, 256, 512, 1024, 2048, 4096, 8192, 16384,
     32768, 65536 >>
Pow2(n) == Pow2Tab[n + 1]

RECURSIVE AndBits(_, _, _)
AndBits(a, b, n) ==
  IF n = 0 THEN 0
  ELSE (IF a % 2 = 1 /\ b % 2 = 1 THEN 1 ELSE 0)
       + 2 * AndBits(a \div 2, b \div 2, n - 1)

AndTab == [a \in 0..255 |-> [b \in 0..255 |-> AndBits(a, b, 8)]]

And8(a, b) == AndTab[a][b]
XorTab == [a \in 0..255 |-> [b \in 0..255 |-> a + b - 2 * AndTab[a][b]]]
Xor8(a, b) == XorTab[a][b]
And16(a, b) == 256 * AndTab[a \div 256][b \div 256] + AndTab[a % 256][b % 256]
Xor16(a, b) == 256 * XorTab[a \div 256][b \div 256] + XorTab[a % 256][b % 256]

WAnd(x, y) == << And16(x[1], y[1]), And16(x[2], y[2]) >>
WXor(x, y) == << Xor16(x[1], y[1]), Xor16(x[2], y[2]) >>
WNot(x) == << 65535 - x[1], 65535 - x[2] >>
WAdd(x, y) ==
  LET lo == x[2] + y[2]
      hi == x[1] + y[1] + (lo \div 65536)
  IN  << hi % 65536, lo % 65536 >>

RECURSIVE Rotr(_, _)
Rotr(x, n) ==
  IF n >= 16 THEN Rotr(<< x[2], x[1] >>, n - 16)
  ELSE LET p == Pow2(n)
           q == Pow2(16 - n)
       IN  << (x[1] \div p) + (x[2] % p) * q, (x[2] \div p) + (x[1] % p) * q >>

Shr(x, n) ==
  LET p == Pow2(n)
      q == Pow2(16 - n)
  IN  << x[1] \div p, (x[2] \div p) + (x[1] % p) * q >>

K256 ==
  << <<17034, 12184>>, <<28983, 17553>>, <<46528, 64463>>, <<59829, 56229>>,
     <<14678, 49755>>, <<23025, 4593>>, <<37439, 33444>>, <<43804, 24277>>,
     <<55303, 43672>>, <<4739, 23297>>, <<9265, 34238>>, <<21772, 32195>>,
     <<29374, 23924>>, <<32990, 45566>>, <<39900, 1703>>, <<49563, 61812>>,
     <<58523, 27073>>, <<61374, 18310>>, <<4033, 40390>>, <<9228, 41420>>,
     <<11753, 11375>>, <<19060, 33962>>, <<23728, 43484>>, <<30457, 35034>>,
     <<38974, 20818>>, <<43057, 50797>>, <<45059, 10184>>, <<48985, 32711>>,
     <<50912, 3059>>, <<54695, 37191>>, <<1738, 25425>>, <<5161, 10599>>,
     <<10167, 2693>>, <<11803, 8504>>, <<19756, 28156>>, <<21304, 3347>>,
     <<25866, 29524>>, <<30314, 2747>>, <<33218, 51502>>, <<37490, 11397>>,
     <<41663, 59553>>, <<43034, 26187>>, <<49739, 35696>>, <<51052, 20899>>,
     <<53650, 59417>>, <<54937, 1572>>, <<62478, 13701>>, <<4202, 41072>>,
     <<6564, 49430>>, <<7735, 27656>>, <<10056, 30540>>, <<13488, 48309>>,
     <<14620, 3251>>, <<20184, 43594>>, <<23452, 51791>>, <<26670, 28659>>,
     <<29839, 33518>>, <<30885, 25455>>, <<33992, 30740>>, <<36039, 520>>,
     <<37054, 65530>>, <<42064, 27883>>, <<48889, 41975>>, <<50801, 30962>> >>

H256 ==
  << <<27145, 58983>>, <<47975, 44677>>, <<15470, 62322>>, <<42319, 62778>>,
     <<20750, 21119>>, <<39685, 26764>>, <<8067, 55723>>, <<23520, 52505>> >>

BigSigma0(x) == WXor(WXor(Rotr(x, 2), Rotr(x, 13)), Rotr(x, 22))
BigSigma1(x) == WXor(WXor(Rotr(x, 6), Rotr(x, 11)), Rotr(x, 25))
SmallSigma0(x) == WXor(WXor(Rotr(x, 7), Rotr(x, 18)), Shr(x, 3))
SmallSigma1(x) == WXor(WXor(Rotr(x, 17), Rotr(x, 19)), Shr(x, 10))
Ch(x, y, z) == WXor(WAnd(x, y), WAnd(WNot(x), z))
Maj(x, y, z) == WXor(WXor(WAnd(x, y), WAnd(x, z)), WAnd(y, z))

RECURSIVE Schedule(_)
Schedule(w) ==
  IF Len(w) = 64 THEN w
  ELSE LET i == Len(w) + 1
       IN  Schedule(Append(w,
             WAdd(WAdd(w[i - 16], SmallSigma0(w[i - 15])),
                  WAdd(w[i - 7], SmallSigma1(w[i - 2])))))

RECURSIVE Rounds(_, _)
Rounds(s, w) ==
  IF s.i > 64 THEN s.v
  ELSE LET v == s.v
           t1 == WAdd(WAdd(WAdd(v[8], BigSigma1(v[5])), Ch(v[5], v[6], v[7])),
                      WAdd(K256[s.i], w[s.i]))
           t2 == WAdd(BigSigma0(v[1]), Maj(v[1], v[2], v[3]))
       IN  Rounds([i |-> s.i + 1,
                   v |-> << WAdd(t1, t2), v[1], v[2], v[3],
                            WAdd(v[4], t1), v[5], v[6], v[7] >>], w)

BlockWords(bytes, off) ==
  [i \in 1..16 |-> << 256 * bytes[off + 4 * i - 3] + bytes[off + 4 * i - 2],
                      256 * bytes[off + 4 * i - 1] + bytes[off + 4 * i] >>]

Compress(h, bytes, off) ==
  LET s == Rounds([i |-> 1, v |-> h], Schedule(BlockWords(bytes, off)))
  IN  [i \in 1..8 |-> WAdd(h[i], s[i])]

RECURSIVE Blocks(_, _, _)
Blocks(h, bytes, off) ==
  IF off >= Len(bytes) THEN h
  ELSE Blocks(Compress(h, bytes, off), bytes, off + 64)

\* The padding of FIPS 180-4: 0x80, zeros, and the length in bits as a 64-bit
\* big-endian number (its four high bytes are 0 for a message shorter than
\* 2^29 bytes).
Sha256Pad(m) ==
  LET bits == 8 * Len(m)
      nz == (119 - (Len(m) % 64)) % 64
  IN  m \o << 128 >> \o [i \in 1..nz |-> 0]
        \o << 0, 0, 0, 0, (bits \div 16777216) % 256, (bits \div 65536) % 256,
              (bits \div 256) % 256, bits % 256 >>

WordsToBytes(h) ==
  [i \in 1..(4 * Len(h)) |->
     LET half == h[(i + 3) \div 4][IF (i - 1) % 4 < 2 THEN 1 ELSE 2]
     IN  IF i % 2 = 1 THEN half \div 256 ELSE half % 256]

Sha256(m) == WordsToBytes(Blocks(H256, Sha256Pad(m), 0))

HmacSha256(key, msg) ==
  LET k0 == IF Len(key) > 64 THEN Sha256(key) ELSE key
      kp == k0 \o [i \in 1..(64 - Len(k0)) |-> 0]
      ipad == [i \in 1..64 |-> Xor8(kp[i], 54)]
      opad == [i \in 1..64 |-> Xor8(kp[i], 92)]
  IN  Sha256(opad \o Sha256(ipad \o msg))

B64Alphabet ==
  << "A","B","C","D","E","F","G","H","I","J","K","L","M","N","O","P",
     "Q","R","S","T","U","V","W","X","Y","Z","a","b","c","d","e","f",
     "g","h","i","j","k","l","m","n","o","p","q","r","s","t","u","v",
     "w","x","y","z","0","1","2","3","4","5","6","7","8","9","+","/" >>

\* binascii.b2a_base64(b): the 4-character groups, then a newline.
RECURSIVE B64Groups(_)
B64Groups(b) ==
  IF Len(b) = 0 THEN << >>
  ELSE LET b1 == b[1]
           b2 == IF Len(b) >= 2 THEN b[2] ELSE 0
           b3 == IF Len(b) >= 3 THEN b[3] ELSE 0
           c1 == B64Alphabet[(b1 \div 4) + 1]
           c2 == B64Alphabet[(b1 % 4) * 16 + (b2 \div 16) + 1]
           c3 == IF Len(b) >= 2 THEN B64Alphabet[(b2 % 16) * 4 + (b3 \div 64) + 1]
                 ELSE "="
           c4 == IF Len(b) >= 3 THEN B64Alphabet[(b3 % 64) + 1] ELSE "="
       IN  << c1, c2, c3, c4 >>
             \o (IF Len(b) > 3 THEN B64Groups(SubSeq(b, 4, Len(b))) ELSE << >>)

b2a_base64(b) == B64Groups(b) \o << "\n" >>

\* base64.b64encode(s): binascii.b2a_base64(s)[:-1]
b64encode(s) == LET encoded == b2a_base64(s) IN SubSeq(encoded, 1, Len(encoded) - 1)

(***************************************************************************)
(* The library calls made by __call__ on its inputs.                       *)
(***************************************************************************)

\* "%0<w>d" % n
RECURSIVE Digits(_, _)
Digits(n, w) ==
  IF w = 0 THEN << >>
  ELSE Digits(n \div 10, w - 1) \o << Chr(48 + (n % 10)) >>

\* datetime.isoformat(): the fraction is written only when microsecond is
\* not zero.
isoformat(dt) ==
  Digits(dt.year, 4) \o << "-" >> \o Digits(dt.month, 2) \o << "-" >> \o Digits(dt.day, 2)
    \o << "T" >> \o Digits(dt.hour, 2) \o << ":" >> \o Digits(dt.minute, 2)
    \o << ":" >> \o Digits(dt.second, 2)
    \o (IF dt.microsecond # 0 THEN << "." >> \o Digits(dt.microsecond, 6) ELSE << >>)

SchemeChars ==
  { Chr(n) : n \in (48..57) \cup (65..90) \cup (97..122) } \cup { "+", "-", "." }

DigitChars == { Chr(n) : n \in 48..57 }

\* urlparse._splitnetloc(url, start): the netloc runs to the first of / ? #
\* (start is 0-based, as in the library).
splitnetloc(url, start) ==
  LET ends == { Find(url, c, start + 1) : c \in { "/", "?", "#" } } \ { 0 }
      delim == IF ends = { } THEN Len(url) + 1
               ELSE CHOOSE e \in ends : \A x \in ends : e <= x
  IN  << SubSeq(url, start + 1, delim - 1), SubSeq(url, delim, Len(url)) >>

\* s[:n]
Prefix(s, n) == SubSeq(s, 1, IF n < Len(s) THEN n ELSE Len(s))

ValueError == << "ValueError" >>

\* urlparse.urlsplit(url) of Python 2 (urlparse(url).netloc is its netloc);
\* a netloc with one square bracket and not the other raises ValueError: the
\* outcome is then the record with exc set and no part of the URL.
urlsplit(url) ==
  LET i == Find(url, ":", 1)
      head == SubSeq(url, 1, i - 1)
      rest == SubSeq(url, i + 1, Len(url))
      isScheme ==
        /\ i > 1
        /\ \/ head = << "h", "t", "t", "p" >>
           \/ /\ Range(head) \subseteq SchemeChars
              /\ rest = << >> \/ ~(Range(rest) \subseteq DigitChars)
      scheme == IF isScheme THEN Lower(head) ELSE << >>
      u1 == IF isScheme THEN rest ELSE url
      nl == IF Prefix(u1, 2) = << "/", "/" >> THEN splitnetloc(u1, 2) ELSE << << >>, u1 >>
      invalid == ("[" \in Range(nl[1])) # ("]" \in Range(nl[1]))
      u2 == nl[2]
      h == Find(u2, "#", 1)
      u3 == IF h > 0 THEN SubSeq(u2, 1, h - 1) ELSE u2
      q == Find(u3, "?", 1)
  IN  IF invalid
      THEN [ exc |-> ValueError, scheme |-> << >>, netloc |-> << >>,
             path |-> << >>, query |-> << >>, fragment |-> << >> ]
      ELSE [ exc |-> None,
             scheme |-> scheme,
             netloc |-> nl[1],
             path |-> IF q > 0 THEN SubSeq(u3, 1, q - 1) ELSE u3,
             query |-> IF q > 0 THEN SubSeq(u3, q + 1, Len(u3)) ELSE << >>,
             fragment |-> IF h > 0 THEN SubSeq(u2, h + 1, Len(u2)) ELSE << >> ]

\* PreparedRequest.path_url: the path, "/" when empty, then "?" and the query;
\* the ValueError of urlsplit goes through.
path_url(r) ==
  LET p == urlsplit(r.url)
  IN  IF p.exc = ValueError THEN ValueError
      ELSE (IF p.path = << >> THEN << "/" >> ELSE p.path)
             \o (IF p.query # << >> THEN << "?" >> \o p.query ELSE << >>)

\* r.headers is a case-insensitive dictionary: it maps the lower-cased name to
\* the pair << name as last set, value >>.
KeyError == << "KeyError" >>

HeadersContain(headers, h) == Lower(h) \in DOMAIN headers

HeadersGet(headers, h) ==
  IF HeadersContain(headers, h) THEN headers[Lower(h)][2] ELSE KeyError

\* A dictionary that holds the one item and nothing else.
HeadersReplace(headers, k, v) == [ x \in { Lower(k) } |-> << k, v >> ]

HeadersSet(headers, k, v) ==
  [ x \in (DOMAIN headers) \cup { Lower(k) } |->
      IF x = Lower(k) THEN << k, v >> ELSE headers[x] ]

\* A header dictionary built from a set of << name, value >> pairs.
Headers(pairs) ==
  [ x \in { Lower(p[1]) : p \in pairs } |->
      CHOOSE p \in pairs : Lower(p[1]) = x ]

(***************************************************************************)
(* HMACAuth.                                                               *)
(***************************************************************************)

\* _STRING_TO_SIGN.format(method=, host=, uri=, timestamp=)
STRING_TO_SIGN(method, host, uri, timestamp) ==
  method \o << NL >> \o host \o << NL >> \o uri \o << NL >> \o timestamp \o << NL >>

\* The three fields with a space after each comma.
AUTH_HEADER_SPACED(api_key, sig, timestamp) ==
  << "A", "P", "I", "K", "e", "y", "=" >> \o api_key \o << ",", " ", "S", "i", "g", "n", "a", "t",
        "u", "r", "e", "=" >> \o sig \o << ",", " ", "T", "i", "m", "e", "s", "t", "a", "m", "p",
              "=" >> \o timestamp

\* _AUTH_HEADER.format(api_key=, sig=, timestamp=)
AUTH_HEADER(api_key, sig, timestamp) ==
  << "A", "P", "I", "K", "e", "y", "=" >> \o api_key \o << ",", "S", "i", "g", "n", "a", "t", "u",
        "r", "e", "=" >> \o sig \o << ",", "T", "i", "m", "e", "s", "t", "a", "m", "p",
              "=" >> \o timestamp

\* HMACAuth.__init__
HMACAuth_init(api_key, secret_key, required_headers) ==
  [ api_key |-> api_key,
    secret_key |-> secret_key,
    required_headers |->
      IF required_headers # None THEN Some(Sorted(required_headers[1])) ELSE None ]

\* if self.required_headers: a list that is neither None nor empty.
Truthy(opt) == opt # None /\ opt[1] # << >>

\* Every name of the list, carried by the request or not.
AllHeaders(names, headers) == names

\* [h for h in self.required_headers if h in r.headers]
PresentHeaders(names, headers) ==
  SelectSeq(names, LAMBDA h : HeadersContain(headers, h))

\* [r.headers[h] for h in ... if h in r.headers]
HeaderValues(names, headers) ==
  LET present == PresentHeaders(names, headers)
  IN  [ i \in 1..Len(present) |-> HeadersGet(headers, present[i]) ]

\* The activation of __call__ before it starts.
NoFrame ==
  [ pc |-> "idle", n |-> 0, r |-> 0, netloc |-> << >>, timestamp |-> << >>,
    str_to_sign |-> << >>, raw_sig |-> << >>, encoded_sig |-> << >>, ret |-> 0,
    exc |-> None ]

\* Lines 30-31: parse r.url, read the clock.  The ValueError of urlparse leaves
\* __call__ at line 30, before the clock is read.
CallParse(f, id, req, now) ==
  LET parsed_url == urlsplit(req.url)
  IN  IF parsed_url.exc = ValueError
      THEN [ NoFrame EXCEPT !.pc = "raised", !.exc = ValueError,
                            !.n = f.n + 1, !.r = id ]
      ELSE [ NoFrame EXCEPT !.pc = "parsed", !.n = f.n + 1, !.r = id,
                            !.netloc = parsed_url.netloc,
                            !.timestamp = isoformat(now) \o << "-", "0", "0", ":", "0", "0" >> ]

\* Lines 33-38: the four lines of the string-to-sign.  The ValueError of
\* r.path_url leaves __call__ at line 36.
CallFormat(f, req) ==
  LET uri == path_url(req)
  IN  IF uri = ValueError
      THEN [ f EXCEPT !.pc = "raised", !.exc = ValueError ]
      ELSE [ f EXCEPT !.pc = "formatted",
                      !.str_to_sign =
                        STRING_TO_SIGN(req.method, f.netloc, uri, f.timestamp) ]

\* The four lines alone, no header value after them.
CallSelectNone(f, self, req) == [ f EXCEPT !.pc = "selected" ]

\* Lines 40-44: the values of the required headers; a lookup of a missing
\* header raises KeyError out of __call__.
CallSelect(f, self, req) ==
  IF Truthy(self.required_headers)
  THEN LET values == HeaderValues(self.required_headers[1], req.headers)
       IN  IF KeyError \in Range(values)
           THEN [ f EXCEPT !.pc = "raised", !.exc = KeyError ]
           ELSE [ f EXCEPT !.pc = "selected",
                           !.str_to_sign = @ \o Join(<< NL >>, values) ]
  ELSE [ f EXCEPT !.pc = "selected" ]

\* Lines 46-47: the digest and its base64 encoding.
CallSign(f, self) ==
  LET raw == HmacSha256(self.secret_key, Bytes(f.str_to_sign))
  IN  [ f EXCEPT !.pc = "signed", !.raw_sig = raw, !.encoded_sig = b64encode(raw) ]

\* Lines 49-53: the request with its Authorization header set.
CallAttach(f, self, req) ==
  [ req EXCEPT !.headers =
      HeadersSet(@, << "A", "u", "t", "h", "o", "r", "i", "z", "a", "t", "i", "o", "n" >>,
                 AUTH_HEADER(self.api_key, f.encoded_sig, f.timestamp)) ]

\* Line 55: return r.
CallReturn(f) == [ f EXCEPT !.pc = "returned", !.ret = f.r ]

\* The string that lines 30-44 hand to hmac.new for a signer, a request and a
\* timestamp, or the exception that leaves __call__ before line 46.
StrToSign(self, req, timestamp) ==
  LET parsed_url == urlsplit(req.url)
  IN  IF parsed_url.exc = ValueError THEN ValueError
      ELSE LET f == CallFormat([ NoFrame EXCEPT !.pc = "parsed",
                                                !.netloc = parsed_url.netloc,
                                                !.timestamp = timestamp ], req)
               g == IF f.pc = "raised" THEN f ELSE CallSelect(f, self, req)
           IN  IF g.pc = "raised" THEN g.exc ELSE g.str_to_sign

(***************************************************************************)
(* The state machine.  A thread is at one position of __call__; Call runs  *)
(* __call__ from entry to return in one step, and Parse .. Return run it   *)
(* one group of lines at a time for the threads that share one instance.   *)
(***************************************************************************)

\* One more call may start on a thread that has made fewer than MaxCalls.
MaxCalls == 2

\* The longest list of header names handed to the constructor.
MaxAllow == 2

XFoo == << "X", "-", "F", "o", "o" >>
XBar == << "X", "-", "B", "a", "r" >>
XBaz == << "X", "-", "B", "a", "z" >>
LowerBaz == << "x", "-", "b", "a", "z" >>
Authorization == << "A", "u", "t", "h", "o", "r", "i", "z", "a", "t", "i", "o", "n" >>

Clock0 ==
  [ year |-> 2024, month |-> 1, day |-> 1, hour |-> 0, minute |-> 0,
    second |-> 0, microsecond |-> 0 ]

Clock1 == [ Clock0 EXCEPT !.microsecond = 1 ]

RunClocks == { Clock0, Clock1 }

\* The clock never runs backwards.
ClockKey(c) ==
  << c.year, c.month, c.day, c.hour, c.minute, c.second, c.microsecond >>

RECURSIVE TupleLess(_, _)
TupleLess(a, b) ==
  IF a = << >> THEN FALSE
  ELSE IF a[1] = b[1] THEN TupleLess(Tail(a), Tail(b))
  ELSE a[1] < b[1]

Later(c, d) == TupleLess(ClockKey(d), ClockKey(c))

Secret == << 115, 51, 99, 114, 51, 116 >>

ApiKeys == { << "k", "1" >>, << "k", "\n", "1" >> }

AllowArgs ==
  { None, Some(<< XFoo, XBar >>), Some(<< XBar, XFoo >>),
    Some(<< Authorization, XFoo >>) }

\* The arguments of the constructor: a key and a list of header names.
Configs ==
  { << k, a >> \in ApiKeys \X AllowArgs : a = None \/ NL \notin Range(k) }

HeaderSets ==
  { Headers({ }),
    Headers({ << XFoo, << "v", "1" >> >> }),
    Headers({ << XFoo, << "v", "1" >> >>, << XBar, << "v", "2" >> >> }),
    Headers({ << XBar, << "v", "2" >> >>, << Authorization, << "o", "l", "d" >> >> }) }

Request(method, url, headers) ==
  [ method |-> method, url |-> url, headers |-> headers ]

\* A URL that urlparse splits, and one with an opening square bracket only.
RunUrls == { << "h", "t", "t", "p", ":", "/", "/", "h", ".", "i", "o", "/", "a", "?", "x", "=",
      "1" >>, << "h", "t", "t", "p", ":", "/", "/", "[", ":", ":", "1", "/", "a" >> }

Init ==
  /\ \E c \in Configs : auth = HMACAuth_init(c[1], Secret, c[2])
  /\ clock = Clock0
  /\ \E h \in HeaderSets, u \in RunUrls : requests = << Request(<< "G", "E", "T" >>, u, h) >>
  /\ frames = << NoFrame >>

\* auth(r): the whole of HMACAuth.__call__, line after line.  An exception
\* leaves __call__ at the line that raises it, with the request as it was.
Call(t, id) ==
  /\ frames[t].pc \in { "idle", "returned", "raised" }
  /\ frames[t].n < MaxCalls
  /\ \E f1 \in { CallParse(frames[t], id, requests[id], clock) } :
     \E f2 \in { IF f1.pc = "raised" THEN f1 ELSE CallFormat(f1, requests[id]) } :
     \E f3 \in { IF f2.pc = "raised" THEN f2
                 ELSE CallSelect(f2, auth, requests[id]) } :
       IF f3.pc = "raised"
       THEN /\ frames' = [ frames EXCEPT ![t] = f3 ]
            /\ requests' = requests
       ELSE \E f4 \in { CallSign(f3, auth) } :
              /\ frames' = [ frames EXCEPT ![t] = CallReturn(f4) ]
              /\ requests' = [ requests EXCEPT ![id] = CallAttach(f4, auth, @) ]
  /\ UNCHANGED << auth, clock >>

\* Time passes between two reads of the clock.
Tick(clocks) ==
  /\ \E c \in clocks : Later(c, clock) /\ clock' = c
  /\ UNCHANGED << auth, requests, frames >>

Next ==
  \/ \E t \in DOMAIN frames, id \in DOMAIN requests : Call(t, id)
  \/ Tick(RunClocks)

Spec == Init /\ [][Next]_vars

(***************************************************************************)
(* __call__ a group of lines at a time.                                    *)
(***************************************************************************)
Parse(t, id) ==
  /\ frames[t].pc = "idle"
  /\ frames' = [ frames EXCEPT ![t] = CallParse(@, id, requests[id], clock) ]
  /\ UNCHANGED << auth, clock, requests >>

Format(t) ==
  /\ frames[t].pc = "parsed"
  /\ frames' = [ frames EXCEPT ![t] = CallFormat(@, requests[@.r]) ]
  /\ UNCHANGED << auth, clock, requests >>

Select(t) ==
  /\ frames[t].pc = "formatted"
  /\ frames' = [ frames EXCEPT ![t] = CallSelect(@, auth, requests[@.r]) ]
  /\ UNCHANGED << auth, clock, requests >>

Sign(t) ==
  /\ frames[t].pc = "selected"
  /\ frames' = [ frames EXCEPT ![t] = CallSign(@, auth) ]
  /\ UNCHANGED << auth, clock, requests >>

\* Lines 49-53 with the clock read again for the Timestamp field.
AttachNow(t) ==
  /\ frames[t].pc = "signed"
  /\ requests' = [ requests EXCEPT ![frames[t].r] =
                     CallAttach([ frames[t] EXCEPT !.timestamp =
                                    isoformat(clock) \o << "-", "0", "0", ":", "0", "0" >> ], auth,
                                          @) ]
  /\ frames' = [ frames EXCEPT ![t].pc = "attached" ]
  /\ UNCHANGED << auth, clock >>

Attach(t) ==
  /\ frames[t].pc = "signed"
  /\ requests' = [ requests EXCEPT ![frames[t].r] = CallAttach(frames[t], auth, @) ]
  /\ frames' = [ frames EXCEPT ![t].pc = "attached" ]
  /\ UNCHANGED << auth, clock >>

Return(t) ==
  /\ frames[t].pc = "attached"
  /\ frames' = [ frames EXCEPT ![t] = CallReturn(@) ]
  /\ UNCHANGED << auth, clock, requests >>

\* Two threads share one signer; each signs its own request.
ConcAuth == HMACAuth_init(<< "k", "1" >>, Secret, Some(<< XFoo >>))

ConcRequests ==
  << Request(<< "G", "E", "T" >>, << "h", "t", "t", "p", ":", "/", "/", "h", ".", "i", "o", "/",
        "a", "?", "x", "=", "1" >>, Headers({ << XFoo, << "v", "1" >> >> })),
     Request(<< "P", "O", "S", "T" >>, << "h", "t", "t", "p", ":", "/", "/", "h", ".", "i", "o",
           ":", "8", "0", "8", "0", "/", "b" >>, Headers({ })) >>

InitConc ==
  /\ auth = ConcAuth
  /\ clock = Clock0
  /\ requests = ConcRequests
  /\ frames = [ t \in DOMAIN ConcRequests |-> NoFrame ]

NextConc ==
  \/ \E t \in DOMAIN frames :
       \/ Parse(t, t)
       \/ Format(t)
       \/ Select(t)
       \/ Sign(t)
       \/ Attach(t)
       \/ Return(t)
  \/ Tick(RunClocks)

SpecConc == InitConc /\ [][NextConc]_vars

(***************************************************************************)
(* The clock reading to the timestamp (line 31), over the calendar.        *)
(***************************************************************************)
TimeClocks ==
  [ year : { 1999, 2024 }, month : { 1, 12 }, day : { 1, 31 }, hour : { 0, 23 },
    minute : { 0, 59 }, second : { 0, 59 },
    microsecond : { 0, 1, 500000, 999999 } ]

InitTime ==
  /\ auth = HMACAuth_init(<< "k", "1" >>, Secret, None)
  /\ clock \in TimeClocks
  /\ requests = << Request(<< "G", "E", "T" >>, << "h", "t", "t", "p", ":", "/", "/", "h", ".",
        "i", "o", "/", "a", "?", "x", "=", "1" >>, Headers({ })) >>
  /\ frames = << NoFrame >>

NextTime == \E t \in DOMAIN frames, id \in DOMAIN requests : Parse(t, id)

SpecTime == InitTime /\ [][NextTime]_vars

(***************************************************************************)
(* The URL to the host and uri lines (lines 30-38), over the URL forms.    *)
(***************************************************************************)
\* URLs that end right after the scheme, have no scheme, or have one square
\* bracket in the network location.
OddUrls ==
  { << >>, << "h", "t", "t", "p", ":" >>, << "a", ":", "b" >>, << "h", ".", "i", "o", ":", "8",
        "0", "8", "0" >>, << "H", "T", "T", "P", ":", "/", "/", "H", ".", "i", "o", "/", "A" >>,
    << "h", "t", "t", "p", ":", "/", "/", "[", ":", ":", "1", "]", ":", "8", "0", "8", "0", "/",
          "a" >>, << "h", "t", "t", "p", ":", "/", "/", "[", ":", ":", "1", "/", "a" >>, << "h",
                "t", "t", "p", "s", ":", "/", "/", "u", "@", ":", ":", "1", "]", "/", "a" >> }

Urls ==
  OddUrls \cup
  { scheme \o << ":", "/", "/" >> \o userinfo \o host \o port \o path \o query \o fragment :
      scheme \in { << "h", "t", "t", "p" >>, << "h", "t", "t", "p", "s" >> },
      userinfo \in { << >>, << "u", "@" >>, << "u", "s", "e", "r", ":", "p", "w", "@" >> },
      host \in { << "h", ".", "i", "o" >>, << "1", "0", ".", "0", ".", "0", ".", "1" >> },
      port \in { << >>, << ":", "8", "0", "8", "0" >> },
      path \in { << >>, << "/" >>, << "/", "a", "/", "b" >> },
      query \in { << >>, << "?", "x", "=", "1" >> },
      fragment \in { << >>, << "#", "f" >> } }

InitUrl ==
  /\ auth = HMACAuth_init(<< "k", "1" >>, Secret, None)
  /\ clock = Clock1
  /\ \E u \in Urls : requests = << Request(<< "G", "E", "T" >>, u, Headers({ })) >>
  /\ frames = << NoFrame >>

NextUrl ==
  \E t \in DOMAIN frames :
    \/ \E id \in DOMAIN requests : Parse(t, id)
    \/ Format(t)

SpecUrl == InitUrl /\ [][NextUrl]_vars

(***************************************************************************)
(* The string-to-sign (lines 30-44), over the header lists and requests.   *)
(***************************************************************************)
CanonNames == { XFoo, XBar, LowerBaz }

RECURSIVE SeqsUpTo(_, _)
SeqsUpTo(S, n) ==
  IF n = 0 THEN { << >> }
  ELSE LET shorter == SeqsUpTo(S, n - 1)
       IN  shorter \cup { Append(s, x) : s \in shorter, x \in S }

CanonAllowArgs == { None } \cup { Some(s) : s \in SeqsUpTo(CanonNames, MaxAllow) }

CanonHeaderSets ==
  { Headers(S) :
      S \in SUBSET { << XFoo, << "v", "1" >> >>, << XBar, << "v", "2" >> >>, << XBaz, << >> >> } }

InitCanon ==
  /\ \E a \in CanonAllowArgs : auth = HMACAuth_init(<< "k", "1" >>, Secret, a)
  /\ clock = Clock1
  /\ \E h \in CanonHeaderSets, m \in { << "G", "E", "T" >>, << "P", "O", "S", "T" >> } :
       requests = << Request(m, << "h", "t", "t", "p", ":", "/", "/", "h", ".", "i", "o", "/", "a",
             "?", "x", "=", "1" >>, h) >>
  /\ frames = << NoFrame >>

NextCanon ==
  \E t \in DOMAIN frames :
    \/ \E id \in DOMAIN requests : Parse(t, id)
    \/ Format(t)
    \/ Select(t)

SpecCanon == InitCanon /\ [][NextCanon]_vars

(***************************************************************************)
(* Properties of the timestamp (line 31).                                  *)
(***************************************************************************)
IsDigits(s) == \A i \in 1..Len(s) : s[i] \in DigitChars

\* YYYY-MM-DDTHH:MM:SS.ffffff-00:00
HasMicrosecondShape(ts) ==
  /\ Len(ts) = 32
  /\ IsDigits(SubSeq(ts, 1, 4)) /\ ts[5] = "-"
  /\ IsDigits(SubSeq(ts, 6, 7)) /\ ts[8] = "-"
  /\ IsDigits(SubSeq(ts, 9, 10)) /\ ts[11] = "T"
  /\ IsDigits(SubSeq(ts, 12, 13)) /\ ts[14] = ":"
  /\ IsDigits(SubSeq(ts, 15, 16)) /\ ts[17] = ":"
  /\ IsDigits(SubSeq(ts, 18, 19)) /\ ts[20] = "."
  /\ IsDigits(SubSeq(ts, 21, 26))
  /\ SubSeq(ts, 27, 32) = << "-", "0", "0", ":", "0", "0" >>

\* C7: the timestamp that __call__ produces always has the shape
\* YYYY-MM-DDTHH:MM:SS.ffffff-00:00, whatever the microsecond of the clock.
C7_TimestampShape ==
  \A t \in DOMAIN frames :
    frames[t].pc = "parsed" => HasMicrosecondShape(frames[t].timestamp)

\* What the code does: the six-digit fraction is there exactly when the
\* microsecond of the clock is not zero.
TimestampShapeUnlessZero ==
  \A t \in DOMAIN frames :
    frames[t].pc = "parsed" =>
      IF clock.microsecond = 0
      THEN /\ Len(frames[t].timestamp) = 25
           /\ "." \notin Range(frames[t].timestamp)
      ELSE HasMicrosecondShape(frames[t].timestamp)

(***************************************************************************)
(* Properties of the host line (lines 30, 35).                             *)
(***************************************************************************)
\* The lines of a text that ends each line with a newline.
RECURSIVE Lines(_)
Lines(s) ==
  LET i == Find(s, NL, 1)
  IN  IF i = 0 THEN (IF s = << >> THEN << >> ELSE << s >>)
      ELSE << SubSeq(s, 1, i - 1) >> \o Lines(SubSeq(s, i + 1, Len(s)))

\* The host[:port] of the URLs of Urls; none for a URL without "//".
HostPorts ==
  { host \o port : host \in { << "h", ".", "i", "o" >>, << "1", "0", ".", "0", ".", "0", ".",
        "1" >> },
                   port \in { << >>, << ":", "8", "0", "8", "0" >> } }
    \cup { << >>, << "H", ".", "i", "o" >>, << "[", ":", ":", "1", "]", ":", "8", "0", "8", "0" >> }

\* C6: the host line of the string-to-sign is exactly host or host:port of the
\* URL, with no user name, password or scheme in it.
C6_HostLineIsHostPort ==
  \A t \in DOMAIN frames :
    frames[t].pc = "formatted" =>
      LET host == Lines(frames[t].str_to_sign)[2]
      IN  /\ host \in HostPorts
          /\ "@" \notin Range(host)

(***************************************************************************)
(* Properties of the string-to-sign (lines 25, 33-44).                     *)
(***************************************************************************)
ListOf(opt) == IF opt = None THEN << >> ELSE opt[1]

Count(x, s) == Cardinality({ i \in 1..Len(s) : s[i] = x })

\* The same names the same number of times, in any order.
SameNames(a, b) ==
  /\ Len(a) = Len(b)
  /\ \A x \in Range(a) \cup Range(b) : Count(x, a) = Count(x, b)

IsAscending(s) == \A i, j \in 1..Len(s) : i < j => ~StrLess(s[j], s[i])

\* The values of the names of the list that the request carries, in the order
\* of the list, with a newline between two values and none at the end.
RECURSIVE SegmentOf(_, _)
SegmentOf(names, headers) ==
  IF names = << >> THEN << >>
  ELSE IF Lower(names[1]) \notin DOMAIN headers
       THEN SegmentOf(Tail(names), headers)
       ELSE headers[Lower(names[1])][2]
              \o (IF \E i \in 2..Len(names) : Lower(names[i]) \in DOMAIN headers
                  THEN << NL >> \o SegmentOf(Tail(names), headers)
                  ELSE << >>)

\* C1: the string-to-sign is method, host, path-plus-query and timestamp, each
\* followed by a newline, then the values of the allow-listed headers that the
\* request carries, in ascending order of the names and joined by newlines; the
\* order in which the names were handed to the constructor does not matter.
C1_StringToSign ==
  \A t \in DOMAIN frames :
    frames[t].pc = "selected" =>
      LET f == frames[t]
          req == requests[f.r]
          names == ListOf(auth.required_headers)
      IN  /\ IsAscending(names)
          /\ f.str_to_sign =
               req.method \o << NL >> \o f.netloc \o << NL >> \o path_url(req)
                 \o << NL >> \o f.timestamp \o << NL >>
                 \o SegmentOf(names, req.headers)
          /\ \A a \in CanonAllowArgs :
               (a # None /\ auth.required_headers # None /\ SameNames(a[1], names))
                 => LET other == HMACAuth_init(auth.api_key, auth.secret_key, a)
                    IN  /\ other = auth
                        /\ StrToSign(other, req, f.timestamp) = f.str_to_sign

\* C1 happens: a signer built from [X-Foo, X-Bar] has signed a request with
\* X-Foo: v1 and X-Bar: v2, and the string-to-sign ends with v2, newline, v1.
C1_Witness ==
  \E t \in DOMAIN frames :
    /\ frames[t].pc = "selected"
    /\ auth = HMACAuth_init(<< "k", "1" >>, Secret, Some(<< XFoo, XBar >>))
    /\ HeadersGet(requests[frames[t].r].headers, XFoo) = << "v", "1" >>
    /\ HeadersGet(requests[frames[t].r].headers, XBar) = << "v", "2" >>
    /\ frames[t].str_to_sign =
         requests[frames[t].r].method
           \o << "\n", "h", ".", "i", "o", "\n", "/", "a", "?", "x", "=", "1", "\n", "2", "0", "2",
                 "4", "-", "0", "1", "-", "0", "1", "T", "0", "0", ":", "0", "0", ":", "0", "0",
                       ".", "0", "0", "0", "0", "0", "1", "-", "0", "0", ":", "0", "0", "\n", "v",
                             "2", "\n", "v", "1" >>

NameSet(opt) == Range(ListOf(opt))

\* C8: two signers whose sets of required header names differ give different
\* strings-to-sign for the same request and timestamp.
C8_DifferentNamesDifferentStrings ==
  \A t \in DOMAIN frames :
    frames[t].pc = "selected" =>
      \A a \in CanonAllowArgs :
        NameSet(a) # NameSet(auth.required_headers) =>
          StrToSign(HMACAuth_init(auth.api_key, auth.secret_key, a),
                    requests[frames[t].r], frames[t].timestamp)
            # frames[t].str_to_sign

\* Every entry of the list b is in the list a, repeats counted.
Extends(a, b) == \A x \in Range(b) : Count(x, a) >= Count(x, b)

\* The list a is the list b with more entries, one of which the request
\* carries with a value that is not empty.
AddsSignedValue(a, b, headers) ==
  /\ Extends(a, b)
  /\ \E x \in Range(a) :
       /\ Count(x, a) > Count(x, b)
       /\ HeadersContain(headers, x)
       /\ HeadersGet(headers, x) # << >>

\* The list a is the list b with more entries, none of which the request
\* carries.
AddsAbsentOnly(a, b, headers) ==
  /\ Extends(a, b)
  /\ \A x \in Range(a) : Count(x, a) > Count(x, b) => ~HeadersContain(headers, x)

\* C8, as the code has it: for the same request and timestamp, a signer whose
\* list has every entry of this signer's list (repeats counted) and, besides,
\* an entry that the request carries with a non-empty value gives a different
\* string-to-sign; a signer whose list has every entry of this signer's list
\* and, besides, only names that the request does not carry gives the same
\* string-to-sign.
C8_AddedValueDifferentString ==
  \A t \in DOMAIN frames :
    frames[t].pc = "selected" =>
      \A a \in CanonAllowArgs :
        LET other == StrToSign(HMACAuth_init(auth.api_key, auth.secret_key, a),
                               requests[frames[t].r], frames[t].timestamp)
            mine == ListOf(auth.required_headers)
            headers == requests[frames[t].r].headers
        IN  /\ AddsSignedValue(ListOf(a), mine, headers)
                 => other # frames[t].str_to_sign
            /\ AddsAbsentOnly(ListOf(a), mine, headers)
                 => other = frames[t].str_to_sign

\* C8 happens: the signer requires X-Foo and the request carries X-Foo and
\* X-Bar and no X-Baz; the signer that requires X-Bar too signs another string,
\* the signer that requires x-baz too signs the same string.
C8_Witness ==
  \E t \in DOMAIN frames :
    /\ frames[t].pc = "selected"
    /\ auth.required_headers = Some(<< XFoo >>)
    /\ AddsSignedValue(<< XFoo, XBar >>, << XFoo >>, requests[frames[t].r].headers)
    /\ AddsAbsentOnly(<< XFoo, LowerBaz >>, << XFoo >>, requests[frames[t].r].headers)
    /\ frames[t].str_to_sign
         # StrToSign(HMACAuth_init(auth.api_key, auth.secret_key,
                                   Some(<< XFoo, XBar >>)),
                     requests[frames[t].r], frames[t].timestamp)
    /\ frames[t].str_to_sign
         = StrToSign(HMACAuth_init(auth.api_key, auth.secret_key,
                                   Some(<< XFoo, LowerBaz >>)),
                     requests[frames[t].r], frames[t].timestamp)

(***************************************************************************)
(* Properties of the Authorization header (lines 46-55).                   *)
(***************************************************************************)
B64Index(c) == CHOOSE i \in 1..64 : B64Alphabet[i] = c

\* The bytes that a text of the standard base64 alphabet stands for.
RECURSIVE B64Decode(_)
B64Decode(s) ==
  IF Len(s) < 4 THEN << >>
  ELSE LET n1 == B64Index(s[1]) - 1
           n2 == B64Index(s[2]) - 1
           n3 == IF s[3] = "=" THEN 0 ELSE B64Index(s[3]) - 1
           n4 == IF s[4] = "=" THEN 0 ELSE B64Index(s[4]) - 1
           b1 == n1 * 4 + (n2 \div 16)
           b2 == (n2 % 16) * 16 + (n3 \div 4)
           b3 == (n3 % 4) * 64 + n4
       IN  (IF s[3] = "=" THEN << b1 >>
            ELSE IF s[4] = "=" THEN << b1, b2 >>
            ELSE << b1, b2, b3 >>)
             \o B64Decode(SubSeq(s, 5, Len(s)))

IsB64Text(s) ==
  /\ Len(s) % 4 = 0
  /\ \A i \in 1..Len(s) :
       \/ s[i] \in Range(B64Alphabet)
       \/ s[i] = "=" /\ i >= Len(s) - 1 /\ (i = Len(s) \/ s[Len(s)] = "=")

\* The four lines that begin every string-to-sign.
FourLines(req, netloc, timestamp) ==
  req.method \o << NL >> \o netloc \o << NL >> \o path_url(req) \o << NL >>
    \o timestamp \o << NL >>

StartsWith(s, prefix) ==
  Len(s) >= Len(prefix) /\ SubSeq(s, 1, Len(prefix)) = prefix

\* C2: the Authorization value is APIKey=, the signer's key, ,Signature=, the
\* standard base64 text of the HMAC-SHA256 of the call's string-to-sign under
\* the secret key, ,Timestamp=, and the timestamp that is the fourth line of
\* that string-to-sign, in that order and with no space.
C2_AuthorizationValue ==
  \A t \in DOMAIN frames :
    frames[t].pc = "returned" =>
      LET f == frames[t]
          value == HeadersGet(requests[f.r].headers, Authorization)
          head == << "A", "P", "I", "K", "e", "y", "=" >> \o auth.api_key \o << ",", "S", "i", "g",
                "n", "a", "t", "u", "r", "e", "=" >>
          tail == << ",", "T", "i", "m", "e", "s", "t", "a", "m", "p", "=" >> \o f.timestamp
          sig == SubSeq(value, Len(head) + 1, Len(value) - Len(tail))
      IN  /\ value = head \o sig \o tail
          /\ IsB64Text(sig)
          /\ B64Decode(sig) = HmacSha256(auth.secret_key, Bytes(f.str_to_sign))
          /\ Len(B64Decode(sig)) = 32
          /\ StartsWith(f.str_to_sign, FourLines(requests[f.r], f.netloc, f.timestamp))

\* C2 happens: the signer with key k1 and no required header has signed
\* GET http://h.io/a?x=1 at 2024-01-01T00:00:00.000001.
C2_Witness ==
  \E t \in DOMAIN frames :
    /\ frames[t].pc = "returned"
    /\ auth = HMACAuth_init(<< "k", "1" >>, Secret, None)
    /\ frames[t].str_to_sign = << "G", "E", "T", "\n", "h", ".", "i", "o", "\n", "/", "a", "?",
          "x", "=", "1", "\n", "2", "0", "2", "4", "-", "0", "1", "-", "0", "1", "T", "0", "0",
                ":", "0", "0", ":", "0", "0", ".", "0", "0", "0", "0", "0", "1", "-", "0", "0",
                      ":", "0", "0", "\n" >>
    /\ HeadersGet(requests[frames[t].r].headers, Authorization) =
         << "A", "P", "I", "K", "e", "y", "=", "k", "1", ",", "S", "i", "g", "n", "a", "t", "u",
               "r", "e", "=", "3", "n", "W", "+", "j", "0", "G", "n", "G", "r", "B", "e", "G", "7",
                     "z", "C", "H", "X", "I", "O", "4", "k", "7", "S", "V", "K", "1", "g", "q",
                           "X", "h", "U", "m", "m", "J", "0", "P", "+", "O", "j", "w", "H", "Y",
                                 "=", ",", "T", "i", "m", "e", "s", "t", "a", "m", "p", "=", "2",
                                       "0", "2", "4", "-", "0", "1", "-", "0", "1", "T", "0", "0",
                                             ":", "0", "0", ":", "0", "0", ".", "0", "0", "0", "0",
                                                   "0", "1", "-", "0", "0", ":", "0", "0" >>

\* C3: a required header that the request does not carry does not make the
\* call fail: whatever headers the request carries, a call on a URL that
\* urlparse splits returns with Authorization set, and its string-to-sign is
\* the one of a signer that requires only the names the request carried.
C3_AbsentHeaderSkipped ==
  [][ \A t \in DOMAIN frames :
        ( /\ frames'[t].n # frames[t].n
          /\ Truthy(auth.required_headers)
          /\ urlsplit(requests[frames'[t].r].url).exc = None ) =>
          LET f == frames'[t]
              req == requests[f.r]
              names == auth.required_headers[1]
              present == SelectSeq(names, LAMBDA h : Lower(h) \in DOMAIN req.headers)
          IN  /\ f.pc = "returned"
              /\ f.exc = None
              /\ Lower(Authorization) \in DOMAIN requests'[f.r].headers
              /\ f.str_to_sign =
                   StrToSign(HMACAuth_init(auth.api_key, auth.secret_key, Some(present)),
                             req, f.timestamp)
              /\ f.str_to_sign =
                   FourLines(req, f.netloc, f.timestamp) \o SegmentOf(present, req.headers)
    ]_vars

\* C3 happens: the signer requires X-Bar and X-Foo, the request carries X-Foo
\* and no X-Bar, and the call has returned.
C3_Witness ==
  \E t \in DOMAIN frames :
    /\ frames[t].pc = "returned"
    /\ auth.required_headers = Some(<< XBar, XFoo >>)
    /\ HeadersContain(requests[frames[t].r].headers, XFoo)
    /\ ~HeadersContain(requests[frames[t].r].headers, XBar)
    /\ HeadersContain(requests[frames[t].r].headers, Authorization)
    /\ frames[t].str_to_sign =
         FourLines(requests[frames[t].r], frames[t].netloc, frames[t].timestamp)
           \o << "v", "1" >>

\* C4: a call sets Authorization to the value it computed, whatever the header
\* held before, leaves every other header, the method and the URL of the
\* request as they were, leaves the signer as it was, and returns the request
\* it was given.
C4_OnlyAuthorizationChanges ==
  [][ /\ auth' = auth
      /\ \A id \in DOMAIN requests :
           /\ requests'[id].method = requests[id].method
           /\ requests'[id].url = requests[id].url
           /\ DOMAIN requests'[id].headers \subseteq
                DOMAIN requests[id].headers \cup { Lower(Authorization) }
           /\ \A x \in DOMAIN requests[id].headers :
                x # Lower(Authorization) =>
                  /\ x \in DOMAIN requests'[id].headers
                  /\ requests'[id].headers[x] = requests[id].headers[x]
      /\ \A t \in DOMAIN frames :
           (frames'[t].n # frames[t].n /\ frames'[t].pc = "returned") =>
             LET f == frames'[t]
             IN  /\ f.ret = f.r
                 /\ HeadersContain(requests'[f.r].headers, Authorization)
                 /\ HeadersGet(requests'[f.r].headers, Authorization) =
                      << "A", "P", "I", "K", "e", "y", "=" >> \o auth.api_key \o << ",", "S", "i",
                            "g", "n", "a", "t", "u", "r", "e", "=" >> \o f.encoded_sig
                        \o << ",", "T", "i", "m", "e", "s", "t", "a", "m", "p",
                              "=" >> \o f.timestamp
                 /\ \A id \in DOMAIN requests : id # f.r => requests'[id] = requests[id]
    ]_vars

\* C4 happens: a request that carried X-Bar: v2 and Authorization: old has been
\* signed, and carries X-Bar: v2 and an Authorization that is not old.
C4_Witness ==
  \E t \in DOMAIN frames :
    /\ frames[t].pc = "returned"
    /\ frames[t].ret = frames[t].r
    /\ DOMAIN requests[frames[t].r].headers = { Lower(XBar), Lower(Authorization) }
    /\ HeadersGet(requests[frames[t].r].headers, XBar) = << "v", "2" >>
    /\ HeadersGet(requests[frames[t].r].headers, Authorization) # << "o", "l", "d" >>

\* C5: the Authorization value of a signed request never contains a newline,
\* whatever the api_key of the signer.
C5_NoNewline ==
  \A t \in DOMAIN frames :
    frames[t].pc = "returned" =>
      NL \notin Range(HeadersGet(requests[frames[t].r].headers, Authorization))

\* C9: a second call on the same request with the same timestamp leaves the
\* request as the first call left it and signs the same string-to-sign.
C9_Idempotent ==
  [][ \A t \in DOMAIN frames :
        ( /\ frames[t].pc = "returned"
          /\ frames'[t].n = frames[t].n + 1
          /\ frames'[t].r = frames[t].r
          /\ frames'[t].timestamp = frames[t].timestamp )
          => /\ frames'[t].str_to_sign = frames[t].str_to_sign
             /\ requests' = requests
    ]_vars

(***************************************************************************)
(* Properties of calls that share one signer.                              *)
(***************************************************************************)
\* The timestamps of the clock readings up to now.
TimestampsSoFar ==
  { isoformat(c) \o << "-", "0", "0", ":", "0", "0" >> : c \in { d \in RunClocks : ~Later(d,
        clock) } }

\* The Authorization value of one call alone on a request at a timestamp.
LoneAuthorization(self, req, timestamp) ==
  << "A", "P", "I", "K", "e", "y", "=" >> \o self.api_key \o << ",", "S", "i", "g", "n", "a", "t",
        "u", "r", "e", "=" >>
    \o b64encode(HmacSha256(self.secret_key, Bytes(StrToSign(self, req, timestamp))))
    \o << ",", "T", "i", "m", "e", "s", "t", "a", "m", "p", "=" >> \o timestamp

\* C10: with calls on one signer interleaved in any way, each on its own
\* request, every call keeps the timestamp it read and the string-to-sign it
\* built from its own request, every request ends with the Authorization value
\* of a lone call with that timestamp on that request, and the signer is as it
\* was constructed.
C10_ConcurrentCalls ==
  /\ auth = ConcAuth
  /\ \A t \in DOMAIN frames :
       LET f == frames[t]
       IN  /\ f.pc # "idle" => f.r = t /\ f.timestamp \in TimestampsSoFar
           /\ f.pc \in { "selected", "signed", "attached", "returned" } =>
                f.str_to_sign = StrToSign(ConcAuth, ConcRequests[t], f.timestamp)
           /\ f.pc \in { "idle", "parsed", "formatted", "selected", "signed" } =>
                requests[t] = ConcRequests[t]
           /\ f.pc \in { "attached", "returned" } =>
                requests[t] =
                  [ ConcRequests[t] EXCEPT !.headers =
                      [ x \in DOMAIN @ \cup { Lower(Authorization) } |->
                          IF x = Lower(Authorization)
                          THEN << Authorization,
                                  LoneAuthorization(ConcAuth, ConcRequests[t],
                                                    f.timestamp) >>
                          ELSE @[x] ] ]

\* C10 happens: both calls have returned, and they read the clock at different
\* times.
C10_Witness ==
  /\ \A t \in DOMAIN frames : frames[t].pc = "returned"
  /\ frames[1].timestamp # frames[2].timestamp
  /\ HeadersGet(requests[1].headers, Authorization)
       # HeadersGet(requests[2].headers, Authorization)
====
